---- MODULE Spec2Model ----
(***************************************************************************)
(* The bookmark cog of sir-lancebot (bot/exts/utilities/bookmark.py): the  *)
(* `bookmark` command with its reaction-collection loop, the               *)
(* `bookmark delete` command, and the per-member list they keep in the     *)
(* Redis cache `member_bookmarked_messages`.                               *)
(*                                                                         *)
(* Every `await` of the source is a suspension point: one action of the    *)
(* model runs a coroutine from one suspension point to the next, so the    *)
(* invocations interleave exactly where the event loop lets them.          *)
(***************************************************************************)
EXTENDS Integers, Sequences, FiniteSets, TLC

(* ------------------------------ bounds -------------------------------- *)
NumMembers == 2
NumTargets == 1
MaxInv == 2
MaxDel == 1
MaxStoredInv == 1
MaxRaceDel == 2
NumCallers == 2
TickStep == 60

(* -------------------------- program constants ------------------------- *)
TIMEOUT == 120
BOOKMARK_EMOJI == "pin"
OtherEmoji == "other"
Emojis == {BOOKMARK_EMOJI, OtherEmoji}

(* ------------------------------ identifiers --------------------------- *)
\* self.bot.user.id; the members are the other users of the guild.
BotUser == 0
Members == 1..NumMembers
Users == Members \cup {BotUser}
Invs == 1..MaxInv
Dels == 1..MaxDel
StoredInvs == 1..MaxStoredInv
RaceDels == 1..MaxRaceDel

\* Message ids are unique platform snowflakes.  The model names them by what
\* issued them: the guild messages that can be bookmarked, one bookmark DM
\* that already lies in each member's DM channel when the bot starts, and the
\* messages an invocation sends (k = 0 its prompt, k >= 1 its k-th DM).
Targets == 1..NumTargets
StoredDM(m) == NumTargets + m
StoredDMs == {StoredDM(m) : m \in Members}
IdBase == NumTargets + NumMembers
Block == NumMembers + 2
FreshId(i, k) == IdBase + (i - 1) * Block + k + 1
PromptId(i) == FreshId(i, 0)
MaxId == IdBase + MaxInv * Block
Ids == 1..MaxId
NoMessage == 0

(* ------------------------- cache (de)serialisation -------------------- *)
\* json.dumps of a list of ints, as the sequence of its tokens:
\* [7, 9] is <<"[", "7", ",", "9", "]">>.
RECURSIVE Items(_)
Items(list) ==
    IF list = <<>> THEN <<>>
    ELSE IF Len(list) = 1 THEN <<ToString(list[1])>>
    ELSE <<ToString(list[1]), ",">> \o Items(Tail(list))

json_dumps(list) == <<"[">> \o Items(list) \o <<"]">>

ParseInt(tok) == CHOOSE n \in 0..MaxId : ToString(n) = tok

\* json.loads of such a text: the numbers at the even positions.
json_loads(text) == [k \in 1..((Len(text) - 1) \div 2) |-> ParseInt(text[2 * k])]

EmptyListText == <<"[", "]">>
Absent == <<>>

Contains(list, x) == \E k \in 1..Len(list) : list[k] = x
NoDuplicates(list) == \A a, b \in 1..Len(list) : list[a] = list[b] => a = b

\* Mutant of list_remove: drops the last element, whatever it is.
list_remove_last(list, x) == SubSeq(list, 1, Len(list) - 1)

\* list.remove(x): drops the first occurrence.
RECURSIVE list_remove(_, _)
list_remove(list, x) ==
    IF list = <<>> THEN <<>>
    ELSE IF Head(list) = x THEN Tail(list)
    ELSE <<Head(list)>> \o list_remove(Tail(list), x)

list_append(list, x) == Append(list, x)

VARIABLES
    cache,         \* member_bookmarked_messages: member id -> stored text, or Absent
    dms,           \* the bookmark DMs that exist: records [id, owner, target, settled]
    task,          \* per bookmark invocation, the frame of its coroutine (see IdleTask)
    prompt,        \* reaction_message of each invocation: "none", "live" or "deleted"
    promptDeletes, \* how many times reaction_message.delete() ran
    posted,        \* the last embed the invocation sent to ctx.channel
    dtask,         \* per delete invocation, the frame of its coroutine (see IdleDelete)
    readers,       \* the members who may read the channel of the target messages
    remaining,     \* per bookmark invocation, the seconds left of its wait_for timeout
    unserved,      \* history: per invocation, the users whose qualifying reaction
                   \* on the live prompt met no listener and got no attempt since
    guild_available, \* SeasonalBot._guild_available: the flag of the asyncio.Event
    gate_was_set,  \* history: _guild_available.set() has set the flag at least once
    caller,        \* per caller of wait_until_guild_available, where its coroutine is
    devlog_cached, \* whether get_channel(Channels.devlog) finds the channel
    notices,       \* the notices sent to the devlog channel: how each got the channel
    redis_session, \* SeasonalBot.redis_session: "session" or "None"
    closing,       \* the frame of close(): its position and the closes attempted
    hook           \* what the last on_command_error call was given and did

bookmarkVars == <<cache, dms, task, prompt, promptDeletes, posted, dtask, readers,
                  remaining, unserved>>

botVars == <<guild_available, gate_was_set, caller, devlog_cached, notices,
             redis_session, closing, hook>>

vars == <<bookmarkVars, botVars>>

\* The frame of a bookmark() coroutine that is not running.  pc is the
\* suspension point; the other fields are the locals of bookmark(),
\* action_bookmark and maybe_send_bookmark that are live at that point, and
\* exc is the exception in flight; reaction is the Reaction wait_for returned
\* (its message and its emoji).  `prior` is a history field: the attempt
\* read the cache after a delivery of the same message to the same member had
\* been completed.
NoReaction == [message |-> NoMessage, emoji |-> OtherEmoji]

IdleTask ==
    [pc |-> "idle", author |-> BotUser, target_message |-> NoMessage,
     member |-> BotUser, members_bookmarked_messages |-> <<>>,
     message |-> NoMessage, exc |-> "none", bookmarked_users |-> <<>>,
     reaction |-> NoReaction, prior |-> FALSE]

\* A coroutine that has ended: by return, or by the exception e.
EndedTask(how, e) == [IdleTask EXCEPT !.pc = how, !.exc = e]

IdleDelete ==
    [pc |-> "idle", author |-> BotUser, message_to_delete |-> NoMessage,
     members_bookmarked_messages |-> <<>>, exc |-> "none"]

EndedDelete(how, e) == [IdleDelete EXCEPT !.pc = how, !.exc = e]

(* ------------------------------ the cache ----------------------------- *)
\* RedisCache.get(key, default)
cache_get(key, default) == IF cache[key] = Absent THEN default ELSE cache[key]

\* get_member_bookmarked_messages
get_member_bookmarked_messages(member) == json_loads(cache_get(member, EmptyListText))

\* Mutant of update_member_bookmarked_messages: the two list actions swapped.
update_swapped(list, message_id, add_or_remove) ==
    IF ~Contains(list, message_id)
    THEN [write |-> FALSE, list |-> list]
    ELSE [write |-> TRUE,
          list |-> IF add_or_remove = "add"
                   THEN list_remove(list, message_id)
                   ELSE list_append(list, message_id)]

\* update_member_bookmarked_messages after its read: whether it reaches the
\* cache write, and the list it would write.
update_member_bookmarked_messages(list, message_id, add_or_remove) ==
    IF ~Contains(list, message_id)
    THEN [write |-> FALSE, list |-> list]
    ELSE [write |-> TRUE,
          list |-> IF add_or_remove = "add"
                   THEN list_append(list, message_id)
                   ELSE list_remove(list, message_id)]

\* The id maybe_send_bookmark hands to update_member_bookmarked_messages:
\* message.id, the id of the DM it has just sent.
BookmarkedId(target_message, message) == message

\* The cache after the write of `stored` for `member`, when there is one.
CacheAfter(member, stored) ==
    IF stored.write
    THEN [cache EXCEPT ![member] = json_dumps(stored.list)]
    ELSE cache

(* --------------------------- action_bookmark -------------------------- *)
\* Mutant of action_bookmark_catches: no except clause for discord.Forbidden.
catches_only_already_bookmarked(e) == e = "AlreadyBookmarkedError"

\* The except clauses of action_bookmark.
action_bookmark_catches(e) == e \in {"Forbidden", "AlreadyBookmarkedError"}

\* The error embed action_bookmark builds for the exception it caught.
error_embed(e) ==
    IF e = "Forbidden" THEN "enable_dms" ELSE "already_bookmarked"

\* The frame when action_bookmark has returned: after the initiator,
\* bookmarked_users = [ctx.author.id] and the prompt is sent next; after a
\* reactor, reaction.remove() is next.
AfterAction(i) ==
    [task[i] EXCEPT
        !.pc = IF prompt[i] = "none" THEN "prompt" ELSE "remove",
        !.bookmarked_users = IF prompt[i] = "none" THEN <<task[i].author>> ELSE @,
        !.members_bookmarked_messages = <<>>,
        !.message = NoMessage,
        !.exc = "none",
        !.prior = FALSE]

\* discord.py declares Reaction.remove(self, user).  The call at line 198
\* passes no user, so Python raises TypeError at the call; bookmark() does not
\* catch it.
reaction_remove == "TypeError"

\* Mutant of event_check: the check that the reaction is on the prompt is
\* missing.
event_check_any_message(i, message, user, emoji) ==
    /\ ~Contains(task[i].bookmarked_users, user)
    /\ emoji = BOOKMARK_EMOJI
    /\ user # BotUser

\* Mutant of event_check: the check against bookmarked_users is missing.
event_check_any_user(i, message, user, emoji) ==
    /\ message = PromptId(i)
    /\ emoji = BOOKMARK_EMOJI
    /\ user # BotUser

\* event_check of bookmark()
event_check(i, message, user, emoji) ==
    /\ message = PromptId(i)
    /\ ~Contains(task[i].bookmarked_users, user)
    /\ emoji = BOOKMARK_EMOJI
    /\ user # BotUser

(* ------------------------- the session (bot.py) ----------------------- *)
\* Client.guild, and any other guild the bot is in.
HomeGuild == 1
OtherGuild == 2
Guilds == {HomeGuild, OtherGuild}

\* The coroutines that call wait_until_guild_available: the send_log task
\* created in __init__ (line 36), and NumCallers others.
SendLog == 0
Callers == 0..NumCallers

\* Mutant of cache_ready: one non-empty cache is enough.
cache_ready_any(roles, members, channels) == roles \/ members \/ channels

\* on_guild_available, line 103: roles, members and channels say whether the
\* guild's cache of each is non-empty.
cache_ready(roles, members, channels) == roles /\ members /\ channels

\* Mutant of event_set: only the first suspended waiter is woken.
event_set_wakes_one(c) ==
    IF caller[c] = "suspended" /\ \A b \in Callers : b < c => caller[b] # "suspended"
    THEN "woken" ELSE caller[c]

\* asyncio.Event.set(): the future of every suspended waiter is resolved; the
\* waiter runs again when the loop gets to it.
event_set(c) == IF caller[c] = "suspended" THEN "woken" ELSE caller[c]

\* The gateway events reach the handlers once the loop runs the connection,
\* after the task created in __init__ has run up to its first await.
Dispatching == caller[SendLog] # "idle"

\* on_guild_available, lines 93-107.
OnGuildAvailable(guild, roles, members, channels) ==
    /\ Dispatching
    /\ IF guild = HomeGuild /\ cache_ready(roles, members, channels)
       THEN /\ guild_available' = TRUE
            /\ gate_was_set' = TRUE
            /\ caller' = [c \in Callers |-> event_set(c)]
       ELSE UNCHANGED <<guild_available, gate_was_set, caller>>
    /\ UNCHANGED <<devlog_cached, notices, redis_session, closing, hook, bookmarkVars>>

\* on_guild_unavailable, lines 109-114.
OnGuildUnavailable(guild) ==
    /\ Dispatching
    /\ guild_available' = (IF guild = HomeGuild THEN FALSE ELSE guild_available)
    /\ UNCHANGED <<gate_was_set, caller, devlog_cached, notices, redis_session, closing,
                   hook, bookmarkVars>>

\* Where a coroutine is once wait_until_guild_available has returned:
\* send_log goes on to get_channel (line 75) and then awaits the fetch (line
\* 80) or, with the channel from the cache, the send (line 91).
Passed(c) ==
    IF c = SendLog
    THEN (IF devlog_cached THEN "send" ELSE "fetch")
    ELSE "resumed"

\* wait_until_guild_available, line 123: Event.wait() returns at once when
\* the flag is set, and suspends the caller otherwise.
Wait(c) ==
    /\ caller[c] = "idle"
    /\ caller' = [caller EXCEPT ![c] = IF guild_available THEN Passed(c) ELSE "suspended"]
    /\ UNCHANGED <<guild_available, gate_was_set, devlog_cached, notices, redis_session,
                   closing, hook, bookmarkVars>>

\* The loop runs a waiter whose future was resolved.
Resume(c) ==
    /\ caller[c] = "woken"
    /\ caller' = [caller EXCEPT ![c] = Passed(c)]
    /\ UNCHANGED <<guild_available, gate_was_set, devlog_cached, notices, redis_session,
                   closing, hook, bookmarkVars>>

\* A caller other than send_log is done with what it waited for; it may call
\* wait_until_guild_available again.
Return(c) ==
    /\ c # SendLog
    /\ caller[c] = "resumed"
    /\ caller' = [caller EXCEPT ![c] = "idle"]
    /\ UNCHANGED <<guild_available, gate_was_set, devlog_cached, notices, redis_session,
                   closing, hook, bookmarkVars>>

\* What fetch_channel gives: the channel, or discord.HTTPException or one of
\* its subclasses.
FetchOutcomes == {"channel", "HTTPException", "NotFound", "Forbidden"}

\* Mutant of send_log_catches: no except clause.
send_log_catches_nothing(e) == FALSE

\* send_log, line 81: except discord.HTTPException.
send_log_catches(e) == e \in {"HTTPException", "NotFound", "Forbidden"}

\* send_log, lines 79-83: the fetch of the devlog channel.
FetchChannel ==
    /\ caller[SendLog] = "fetch"
    /\ \E outcome \in FetchOutcomes :
          caller' = [caller EXCEPT ![SendLog] =
                       IF outcome = "channel" THEN "send"
                       ELSE IF send_log_catches(outcome) THEN "returned"
                       ELSE "raised"]
    /\ UNCHANGED <<guild_available, gate_was_set, devlog_cached, notices, redis_session,
                   closing, hook, bookmarkVars>>

\* send_log, lines 85-91: the embed goes to the devlog channel.
DevlogSend ==
    /\ caller[SendLog] = "send"
    /\ notices' = notices + 1
    /\ caller' = [caller EXCEPT ![SendLog] = "returned"]
    /\ UNCHANGED <<guild_available, gate_was_set, devlog_cached, redis_session, closing,
                   hook, bookmarkVars>>

\* close() not called yet; attempted lists the closes awaited so far.
IdleClosing == [pc |-> "idle", attempted |-> <<>>]

\* close() is called and runs up to `await super().close()`.
CloseCall ==
    /\ closing.pc = "idle"
    /\ closing' = [closing EXCEPT !.pc = "super_close"]
    /\ UNCHANGED <<guild_available, gate_was_set, caller, devlog_cached, notices,
                   redis_session, hook, bookmarkVars>>

\* close(), line 48: super().close() returns or raises; http_session, made in
\* __init__ (line 30), is there.
SuperClose ==
    /\ closing.pc = "super_close"
    /\ \E failed \in BOOLEAN :
          closing' = [pc |-> IF failed THEN "raised" ELSE "http_close",
                      attempted |-> Append(closing.attempted, "client")]
    /\ UNCHANGED <<guild_available, gate_was_set, caller, devlog_cached, notices,
                   redis_session, hook, bookmarkVars>>

\* close(), lines 50-53: http_session.close() returns or raises.
HttpClose ==
    /\ closing.pc = "http_close"
    /\ \E failed \in BOOLEAN :
          closing' = [pc |-> IF failed THEN "raised"
                             ELSE IF redis_session = "session" THEN "redis_close"
                             ELSE "returned",
                      attempted |-> Append(closing.attempted, "http")]
    /\ UNCHANGED <<guild_available, gate_was_set, caller, devlog_cached, notices,
                   redis_session, hook, bookmarkVars>>

\* close(), line 54: redis_session.close() returns or raises.
RedisClose ==
    /\ closing.pc = "redis_close"
    /\ \E failed \in BOOLEAN :
          closing' = [pc |-> IF failed THEN "raised" ELSE "returned",
                      attempted |-> Append(closing.attempted, "redis")]
    /\ UNCHANGED <<guild_available, gate_was_set, caller, devlog_cached, notices,
                   redis_session, hook, bookmarkVars>>

\* The exceptions the command framework hands to on_command_error for the
\* two bookmark commands: those the commands raise, and the failures of the
\* guild_only and dm_only checks.
HookExceptions ==
    {"NoTargetMessage", "WrongChannel", "TypeError", "NotFound",
     "NoPrivateMessage", "PrivateMessageOnly"}

\* The class of the exception object given to the hook: the commands raise
\* commands.UserInputError themselves (lines 149, 217 and 220 of bookmark.py),
\* and the framework wraps any other exception of a command body in
\* CommandInvokeError.
ExceptionClass(e) ==
    CASE e \in {"NoTargetMessage", "WrongChannel"} -> "UserInputError"
      [] e \in {"TypeError", "NotFound"} -> "CommandInvokeError"
      [] OTHER -> e

\* The base class of each exception class.
BaseClass(c) ==
    CASE c = "UserInputError" -> "CommandError"
      [] c = "CommandInvokeError" -> "CommandError"
      [] c \in {"NoPrivateMessage", "PrivateMessageOnly"} -> "CheckFailure"
      [] c = "CheckFailure" -> "CommandError"
      [] c = "CommandError" -> "DiscordException"
      [] OTHER -> "Exception"

RECURSIVE IsSubclass(_, _)
IsSubclass(c, cls) ==
    IF c = cls THEN TRUE
    ELSE IF c = "Exception" THEN FALSE
    ELSE IsSubclass(BaseClass(c), cls)

\* Mutant of is_user_input_error: the isinstance test never holds.
is_user_input_error_never(e) == FALSE

\* on_command_error, line 67: isinstance(exception, commands.UserInputError).
is_user_input_error(e) == IsSubclass(ExceptionClass(e), "UserInputError")

\* on_command_error has not been called.
NoHook == [exception |-> "none", cooldown_reset |-> FALSE, default_handler |-> FALSE]

\* on_command_error, lines 65-70.
OnCommandError(e) ==
    /\ hook' = [exception |-> e,
                cooldown_reset |-> is_user_input_error(e),
                default_handler |-> ~is_user_input_error(e)]
    /\ UNCHANGED <<guild_available, gate_was_set, caller, devlog_cached, notices,
                   redis_session, closing, bookmarkVars>>

(* ------------------------------- Init --------------------------------- *)
InitInvocations ==
    /\ task = [i \in Invs |-> IdleTask]
    /\ prompt = [i \in Invs |-> "none"]
    /\ promptDeletes = [i \in Invs |-> 0]
    /\ posted = [i \in Invs |-> "none"]
    /\ dtask = [j \in Dels |-> IdleDelete]
    /\ remaining = [i \in Invs |-> 0]
    /\ unserved = [i \in Invs |-> {}]

\* SeasonalBot.__init__, lines 28-36: the event is clear, the send_log task
\* is created, nothing is closed.
InitGate ==
    /\ guild_available = FALSE
    /\ gate_was_set = FALSE
    /\ caller = [c \in Callers |-> "idle"]
    /\ notices = 0
    /\ closing = IdleClosing
    /\ hook = NoHook

\* The session of the module (lines 135-152), with the devlog channel in the
\* channel cache.
InitSession ==
    /\ InitGate
    /\ devlog_cached = TRUE
    /\ redis_session = "session"

\* A bot started on an empty cache, in a guild where any of the members may
\* lack read access to the channel of the target messages.
Init ==
    /\ cache = [m \in Members |-> Absent]
    /\ dms = {}
    /\ readers \in SUBSET Members
    /\ InitInvocations
    /\ InitSession

\* The duplicate-free lists over a set of ids.
DupFreeLists(S) ==
    UNION {{l \in [1..n -> S] : NoDuplicates(l)} : n \in 0..Cardinality(S)}

\* What a member's record may hold when the bot starts.
StoredTexts(m) ==
    {Absent} \cup {json_dumps(l) : l \in DupFreeLists(Targets \cup {StoredDM(m)})}

\* A second bookmark DM of an earlier run in the member's DM channel.  Its id
\* is taken from the ids of the messages bookmark invocations send: it is
\* used where no bookmark invocation runs.
OlderDM(m) == IdBase + m

\* What a member's record may hold when both DMs of the member's channel are
\* on its list.
StoredTexts2(m) ==
    {json_dumps(l) : l \in {k \in DupFreeLists(Targets \cup {StoredDM(m), OlderDM(m)}) :
                               Contains(k, StoredDM(m)) /\ Contains(k, OlderDM(m))}}

\* A bot started on a cache that already holds lists (Redis outlives the
\* process): each member's record is absent or any duplicate-free list over
\* the target messages and the bookmark DM lying in the member's DM channel.
\* Every member can read the target channel here.
InitStored ==
    /\ cache \in {f \in [Members -> UNION {StoredTexts(m) : m \in Members}] :
                    \A m \in Members : f[m] \in StoredTexts(m)}
    /\ dms = {[id |-> StoredDM(m), owner |-> m, target |-> NoMessage, settled |-> TRUE] :
                m \in Members}
    /\ readers = Members
    /\ InitInvocations
    /\ InitSession

\* A bot started on a cache in which every member's list holds the ids of
\* both bookmark DMs lying in the member's DM channel, and maybe a target id;
\* only delete commands are invoked.
InitRace ==
    /\ cache \in {f \in [Members -> UNION {StoredTexts2(m) : m \in Members}] :
                    \A m \in Members : f[m] \in StoredTexts2(m)}
    /\ dms = {[id |-> StoredDM(m), owner |-> m, target |-> NoMessage, settled |-> TRUE] :
                m \in Members}
             \cup {[id |-> OlderDM(m), owner |-> m, target |-> NoMessage, settled |-> TRUE] :
                     m \in Members}
    /\ readers = Members
    /\ task = [i \in Invs |-> IdleTask]
    /\ prompt = [i \in Invs |-> "none"]
    /\ promptDeletes = [i \in Invs |-> 0]
    /\ posted = [i \in Invs |-> "none"]
    /\ dtask = [j \in RaceDels |-> IdleDelete]
    /\ remaining = [i \in Invs |-> 0]
    /\ unserved = [i \in Invs |-> {}]
    /\ InitSession

(* ------------------------- the bookmark command ----------------------- *)
\* Mutant of Invoke: the permission check of lines 152-157 is missing.
Invoke_without_permission_check(i, a, t) ==
    /\ task[i].pc = "idle"
    /\ \A h \in Invs : h < i => task[h].pc # "idle"
    /\ IF t = NoMessage
       THEN task' = [task EXCEPT ![i] = EndedTask("raised", "NoTargetMessage")]
       ELSE task' = [task EXCEPT ![i] =
                       [IdleTask EXCEPT !.pc = "ab_get", !.author = a,
                                        !.target_message = t, !.member = a]]
    /\ UNCHANGED <<cache, dms, prompt, promptDeletes, posted, dtask, readers, remaining, unserved, botVars>>

\* bookmark(), lines 147-159: resolve the target, check the author's read
\* permission, and start action_bookmark for the author.
Invoke(i, a, t) ==
    /\ task[i].pc = "idle"
    /\ \A h \in Invs : h < i => task[h].pc # "idle"
    /\ IF t = NoMessage
       THEN /\ task' = [task EXCEPT ![i] = EndedTask("raised", "NoTargetMessage")]
            /\ UNCHANGED posted
       ELSE IF a \notin readers
       THEN /\ task' = [task EXCEPT ![i] = EndedTask("returned", "none")]
            /\ posted' = [posted EXCEPT ![i] = "no_permission"]
       ELSE /\ task' = [task EXCEPT ![i] =
                         [IdleTask EXCEPT !.pc = "ab_get", !.author = a,
                                          !.target_message = t, !.member = a]]
            /\ UNCHANGED posted
    /\ UNCHANGED <<cache, dms, prompt, promptDeletes, dtask, readers, remaining, unserved, botVars>>

\* maybe_send_bookmark, line 99: the read of the member's list.
AbGet(i) ==
    /\ task[i].pc = "ab_get"
    /\ task' = [task EXCEPT ![i] =
                 [@ EXCEPT !.pc = "ab_send",
                           !.members_bookmarked_messages =
                               get_member_bookmarked_messages(task[i].member),
                           !.prior = \E d \in dms : /\ d.owner = task[i].member
                                                    /\ d.target = task[i].target_message
                                                    /\ d.settled]]
    /\ UNCHANGED <<cache, dms, prompt, promptDeletes, posted, dtask, readers, remaining, unserved, botVars>>

\* What becomes of an exception of maybe_send_bookmark: action_bookmark
\* catches it and goes on to send the error embed, or it leaves the command.
Raised(i, e) ==
    IF action_bookmark_catches(e)
    THEN [task[i] EXCEPT !.pc = "ab_err", !.exc = e]
    ELSE EndedTask("raised", e)

\* maybe_send_bookmark, lines 101-105: the duplicate check and member.send,
\* which delivers the DM or raises Forbidden when the member's DMs are closed.
AbSend(i) ==
    /\ task[i].pc = "ab_send"
    /\ IF Contains(task[i].members_bookmarked_messages, task[i].target_message)
       THEN /\ task' = [task EXCEPT ![i] = Raised(i, "AlreadyBookmarkedError")]
            /\ UNCHANGED dms
       ELSE \E forbidden \in BOOLEAN :
              IF ~forbidden
              THEN LET id == FreshId(i, Len(task[i].bookmarked_users) + 1)
                   IN /\ dms' = dms \cup {[id |-> id, owner |-> task[i].member,
                                           target |-> task[i].target_message,
                                           settled |-> FALSE]}
                      /\ task' = [task EXCEPT ![i] =
                                   [@ EXCEPT !.pc = "up_get", !.message = id]]
              ELSE /\ task' = [task EXCEPT ![i] = Raised(i, "Forbidden")]
                   /\ UNCHANGED dms
    /\ UNCHANGED <<cache, prompt, promptDeletes, posted, dtask, readers, remaining, unserved, botVars>>

\* update_member_bookmarked_messages, line 57: its own read of the list.
UpGet(i) ==
    /\ task[i].pc = "up_get"
    /\ task' = [task EXCEPT ![i] =
                 [@ EXCEPT !.pc = "up_set",
                           !.members_bookmarked_messages =
                               get_member_bookmarked_messages(task[i].member)]]
    /\ UNCHANGED <<cache, dms, prompt, promptDeletes, posted, dtask, readers, remaining, unserved, botVars>>

\* update_member_bookmarked_messages, lines 58-64, called with "add" from line
\* 107; maybe_send_bookmark and action_bookmark then return.
UpSet(i) ==
    /\ task[i].pc = "up_set"
    /\ cache' = CacheAfter(task[i].member,
                  update_member_bookmarked_messages(
                      task[i].members_bookmarked_messages,
                      BookmarkedId(task[i].target_message, task[i].message),
                      "add"))
    /\ dms' = {IF d.id = task[i].message THEN [d EXCEPT !.settled = TRUE] ELSE d : d \in dms}
    /\ task' = [task EXCEPT ![i] = AfterAction(i)]
    /\ UNCHANGED <<prompt, promptDeletes, posted, dtask, readers, remaining, unserved, botVars>>

\* action_bookmark, line 128: the error embed goes to ctx.channel.
AbErr(i) ==
    /\ task[i].pc = "ab_err"
    /\ posted' = [posted EXCEPT ![i] = error_embed(task[i].exc)]
    /\ task' = [task EXCEPT ![i] = AfterAction(i)]
    /\ UNCHANGED <<cache, dms, prompt, promptDeletes, dtask, readers, remaining, unserved, botVars>>

\* bookmark(), line 171: the prompt is posted.
Prompt(i) ==
    /\ task[i].pc = "prompt"
    /\ prompt' = [prompt EXCEPT ![i] = "live"]
    /\ posted' = [posted EXCEPT ![i] = "prompt"]
    /\ task' = [task EXCEPT ![i].pc = "add_reaction"]
    /\ UNCHANGED <<cache, dms, promptDeletes, dtask, readers, remaining, unserved, botVars>>

\* bookmark(), line 172: the bot's own reaction; then the first wait_for.
AddReaction(i) ==
    /\ task[i].pc = "add_reaction"
    /\ task' = [task EXCEPT ![i].pc = "waiting"]
    /\ remaining' = [remaining EXCEPT ![i] = TIMEOUT]
    /\ UNCHANGED <<cache, dms, prompt, promptDeletes, posted, dtask, readers, unserved, botVars>>

\* The messages a reaction can be added to: a live prompt, or another message.
Reactable == {PromptId(i) : i \in {h \in Invs : prompt[h] = "live"}} \cup Targets

\* The suspension points of bookmark() inside the loop of lines 190-199 and
\* between the posting of the prompt and the loop, other than wait_for.
NotListening == {"add_reaction", "ab_get", "ab_send", "up_get", "up_set", "ab_err", "remove"}

\* A reaction that event_check would accept is added to the live prompt of
\* invocation i while i is suspended elsewhere than in wait_for: no listener
\* is registered, the event is dropped.  The user being served still has the
\* reaction on the prompt and cannot add it again.
NoListener(i, message, user, emoji) ==
    /\ prompt[i] = "live"
    /\ task[i].pc \in NotListening
    /\ user # task[i].member
    /\ event_check(i, message, user, emoji)

\* A reaction_add event is dispatched: wait_for (line 192) resolves for each
\* waiting invocation whose event_check accepts it, which then calls
\* action_bookmark for the reactor (line 197).  An event no waiting
\* invocation accepts changes nothing.
ReactionAdd(message, user, emoji) ==
    /\ message \in Reactable
    /\ task' = [i \in Invs |->
                  IF task[i].pc = "waiting" /\ event_check(i, message, user, emoji)
                  THEN [task[i] EXCEPT !.pc = "ab_get", !.member = user,
                                       !.reaction = [message |-> message, emoji |-> emoji]]
                  ELSE task[i]]
    /\ remaining' = [i \in Invs |->
                       IF task[i].pc = "waiting" /\ event_check(i, message, user, emoji)
                       THEN 0 ELSE remaining[i]]
    /\ unserved' = [i \in Invs |->
                      IF task[i].pc = "waiting" /\ event_check(i, message, user, emoji)
                      THEN unserved[i] \ {user}
                      ELSE IF NoListener(i, message, user, emoji)
                      THEN unserved[i] \cup {user}
                      ELSE unserved[i]]
    /\ UNCHANGED <<cache, dms, prompt, promptDeletes, posted, dtask, readers, botVars>>

\* bookmark(), lines 198-199: reaction.remove() and bookmarked_users.append.
Remove(i) ==
    /\ task[i].pc = "remove"
    /\ task' = [task EXCEPT ![i] =
                 IF reaction_remove = "removed"
                 THEN [@ EXCEPT !.pc = "waiting", !.member = BotUser,
                                !.reaction = NoReaction,
                                !.bookmarked_users = Append(@, task[i].member)]
                 ELSE EndedTask("raised", reaction_remove)]
    /\ remaining' = [remaining EXCEPT ![i] =
                       IF reaction_remove = "removed" THEN TIMEOUT ELSE @]
    /\ UNCHANGED <<cache, dms, prompt, promptDeletes, posted, dtask, readers, unserved, botVars>>

\* TickStep seconds pass: the timeout of every pending wait_for comes closer.
Tick ==
    /\ \E i \in Invs : task[i].pc = "waiting" /\ remaining[i] > 0
    /\ remaining' = [i \in Invs |->
                       IF task[i].pc = "waiting"
                       THEN (IF remaining[i] > TickStep THEN remaining[i] - TickStep ELSE 0)
                       ELSE remaining[i]]
    /\ UNCHANGED <<cache, dms, task, prompt, promptDeletes, posted, dtask, readers, unserved, botVars>>

\* bookmark(), lines 193-195: wait_for timed out, the loop is left.
Timeout(i) ==
    /\ task[i].pc = "waiting"
    /\ remaining[i] = 0
    /\ task' = [task EXCEPT ![i].pc = "delete"]
    /\ UNCHANGED <<cache, dms, prompt, promptDeletes, posted, dtask, readers, remaining, unserved, botVars>>

\* bookmark(), line 201: reaction_message.delete(); the command returns.
DeletePrompt(i) ==
    /\ task[i].pc = "delete"
    /\ prompt' = [prompt EXCEPT ![i] = "deleted"]
    /\ promptDeletes' = [promptDeletes EXCEPT ![i] = @ + 1]
    /\ task' = [task EXCEPT ![i] = EndedTask("closed", "none")]
    /\ UNCHANGED <<cache, dms, posted, dtask, readers, remaining, unserved, botVars>>

(* ---------------------- the bookmark delete command ------------------- *)
GuildChannel == 0

\* message.channel: the DM channel of its owner for a DM (named by the
\* member), the guild channel for every other message.
ChannelOf(message) ==
    IF \E d \in dms : d.id = message
    THEN (CHOOSE d \in dms : d.id = message).owner
    ELSE GuildChannel

\* The messages the converter or the reply reference can resolve to.
Resolvable == {NoMessage} \cup Targets \cup {d.id : d \in dms}

\* Mutant of delete_bookmark_check: the channel check of line 219 is missing.
delete_check_no_channel(member, message) ==
    IF message = NoMessage THEN "NoTargetMessage" ELSE "ok"

\* delete_bookmark, lines 216 and 219: the checks that raise UserInputError.
delete_bookmark_check(member, message) ==
    IF message = NoMessage THEN "NoTargetMessage"
    ELSE IF ChannelOf(message) # member THEN "WrongChannel"
    ELSE "ok"

\* delete_bookmark, lines 215-221, invoked by m in m's DM channel, up to the
\* request that deletes the message.
DeleteInvoke(j, m, message) ==
    /\ dtask[j].pc = "idle"
    /\ \A h \in Dels : h < j => dtask[h].pc # "idle"
    /\ message \in Resolvable
    /\ dtask' = [dtask EXCEPT ![j] =
                   IF delete_bookmark_check(m, message) = "ok"
                   THEN [IdleDelete EXCEPT !.pc = "d_delete", !.author = m,
                                           !.message_to_delete = message]
                   ELSE EndedDelete("raised", delete_bookmark_check(m, message))]
    /\ UNCHANGED <<cache, dms, task, prompt, promptDeletes, posted, readers, remaining, unserved, botVars>>

\* delete_bookmark, line 221: message_to_delete.delete(); NotFound when
\* another delete removed the message first.
DeleteMessage(j) ==
    /\ dtask[j].pc = "d_delete"
    /\ IF \E d \in dms : d.id = dtask[j].message_to_delete
       THEN /\ dms' = {d \in dms : d.id # dtask[j].message_to_delete}
            /\ dtask' = [dtask EXCEPT ![j].pc = "d_get"]
       ELSE /\ dtask' = [dtask EXCEPT ![j] = EndedDelete("raised", "NotFound")]
            /\ UNCHANGED dms
    /\ UNCHANGED <<cache, task, prompt, promptDeletes, posted, readers, remaining, unserved, botVars>>

\* update_member_bookmarked_messages, line 57, called from line 222.
DeleteGet(j) ==
    /\ dtask[j].pc = "d_get"
    /\ dtask' = [dtask EXCEPT ![j] =
                   [@ EXCEPT !.pc = "d_set",
                             !.members_bookmarked_messages =
                                 get_member_bookmarked_messages(dtask[j].author)]]
    /\ UNCHANGED <<cache, dms, task, prompt, promptDeletes, posted, readers, remaining, unserved, botVars>>

\* Mutant of DeleteSet: the list is read again in the step that writes it.
DeleteSet_atomic(j) ==
    /\ dtask[j].pc = "d_set"
    /\ cache' = CacheAfter(dtask[j].author,
                  update_member_bookmarked_messages(
                      get_member_bookmarked_messages(dtask[j].author),
                      dtask[j].message_to_delete, "remove"))
    /\ dtask' = [dtask EXCEPT ![j] = EndedDelete("done", "none")]
    /\ UNCHANGED <<dms, task, prompt, promptDeletes, posted, readers, remaining, unserved, botVars>>

\* update_member_bookmarked_messages, lines 58-64, with "remove"; the command
\* returns.
DeleteSet(j) ==
    /\ dtask[j].pc = "d_set"
    /\ cache' = CacheAfter(dtask[j].author,
                  update_member_bookmarked_messages(
                      dtask[j].members_bookmarked_messages,
                      dtask[j].message_to_delete, "remove"))
    /\ dtask' = [dtask EXCEPT ![j] = EndedDelete("done", "none")]
    /\ UNCHANGED <<dms, task, prompt, promptDeletes, posted, readers, remaining, unserved, botVars>>

(* --------------------------- specifications --------------------------- *)
\* Every bookmark and delete invocation may take its next step, and any user
\* may add any reaction.
Next ==
    \/ \E i \in Invs, a \in Members, t \in Targets \cup {NoMessage} : Invoke(i, a, t)
    \/ \E i \in Invs : AbGet(i)
    \/ \E i \in Invs : AbSend(i)
    \/ \E i \in Invs : UpGet(i)
    \/ \E i \in Invs : UpSet(i)
    \/ \E i \in Invs : AbErr(i)
    \/ \E i \in Invs : Prompt(i)
    \/ \E i \in Invs : AddReaction(i)
    \/ \E message \in Ids, user \in Users, emoji \in Emojis : ReactionAdd(message, user, emoji)
    \/ \E i \in Invs : Remove(i)
    \/ Tick
    \/ \E i \in Invs : Timeout(i)
    \/ \E i \in Invs : DeletePrompt(i)
    \/ \E j \in Dels, m \in Members, message \in Ids \cup {NoMessage} : DeleteInvoke(j, m, message)
    \/ \E j \in Dels : DeleteMessage(j)
    \/ \E j \in Dels : DeleteGet(j)
    \/ \E j \in Dels : DeleteSet(j)

Spec == Init /\ [][Next]_vars

\* The same steps on a cache that holds lists, for the first MaxStoredInv
\* bookmark invocations.
NextStored ==
    \/ \E i \in StoredInvs, a \in Members, t \in Targets \cup {NoMessage} : Invoke(i, a, t)
    \/ \E i \in StoredInvs : AbGet(i)
    \/ \E i \in StoredInvs : AbSend(i)
    \/ \E i \in StoredInvs : UpGet(i)
    \/ \E i \in StoredInvs : UpSet(i)
    \/ \E i \in StoredInvs : AbErr(i)
    \/ \E i \in StoredInvs : Prompt(i)
    \/ \E i \in StoredInvs : AddReaction(i)
    \/ \E message \in Ids, user \in Users, emoji \in Emojis : ReactionAdd(message, user, emoji)
    \/ \E i \in StoredInvs : Remove(i)
    \/ Tick
    \/ \E i \in StoredInvs : Timeout(i)
    \/ \E i \in StoredInvs : DeletePrompt(i)
    \/ \E j \in Dels, m \in Members, message \in Ids \cup {NoMessage} : DeleteInvoke(j, m, message)
    \/ \E j \in Dels : DeleteMessage(j)
    \/ \E j \in Dels : DeleteGet(j)
    \/ \E j \in Dels : DeleteSet(j)

SpecStored == InitStored /\ [][NextStored]_vars

\* The delete command alone, for MaxRaceDel concurrent invocations.
NextRace ==
    \/ \E j \in RaceDels, m \in Members, message \in Ids \cup {NoMessage} : DeleteInvoke(j, m, message)
    \/ \E j \in RaceDels : DeleteMessage(j)
    \/ \E j \in RaceDels : DeleteGet(j)
    \/ \E j \in RaceDels : DeleteSet(j)

SpecRace == InitRace /\ [][NextRace]_vars

\* A session on its own, with and without the devlog channel in the cache
\* and with and without a Redis session.
InitBot ==
    /\ InitGate
    /\ devlog_cached \in BOOLEAN
    /\ redis_session \in {"session", "None"}
    /\ cache = [m \in Members |-> Absent]
    /\ dms = {}
    /\ readers = Members
    /\ InitInvocations

NextBot ==
    \/ \E guild \in Guilds, roles, members, channels \in BOOLEAN :
          OnGuildAvailable(guild, roles, members, channels)
    \/ \E guild \in Guilds : OnGuildUnavailable(guild)
    \/ \E c \in Callers : Wait(c)
    \/ \E c \in Callers : Resume(c)
    \/ \E c \in Callers : Return(c)
    \/ FetchChannel
    \/ DevlogSend
    \/ CloseCall
    \/ SuperClose
    \/ HttpClose
    \/ RedisClose
    \/ \E e \in HookExceptions : OnCommandError(e)

SpecBot == InitBot /\ [][NextBot]_vars

\* The loop runs every coroutine that is ready, and every request gets its
\* answer.
SpecBotFair ==
    /\ SpecBot
    /\ \A c \in Callers : WF_vars(Resume(c))
    /\ WF_vars(Wait(SendLog))
    /\ WF_vars(FetchChannel)
    /\ WF_vars(DevlogSend)

(* ------------------------------- claims ------------------------------- *)
\* The member's persisted list.
StoredList(m) == get_member_bookmarked_messages(m)

\* A list without every occurrence of x.
Without(list, x) == SelectSeq(list, LAMBDA y : y # x)

\* Invocation i takes a step from the suspension point `at`.
StepsFrom(i, at) == task[i].pc = at /\ task'[i] # task[i]

\* C1: when a bookmark attempt for member m and target X has delivered its
\* DM, the update that ends the attempt leaves m's persisted list equal to
\* the previous list with X appended.
C1_DeliveredIsAppended ==
    [][\A i \in Invs :
          StepsFrom(i, "up_set") =>
              json_loads(cache'[task[i].member]) =
                  Append(StoredList(task[i].member), task[i].target_message)]_vars

\* C2: an attempt for member m and target X that starts after a bookmark of
\* X was delivered to m, and finds that DM still there, fails with
\* AlreadyBookmarked, sends no DM and leaves the cache alone.
C2_SecondAttemptFails ==
    [][\A i \in Invs :
          ( /\ StepsFrom(i, "ab_send")
            /\ task[i].prior
            /\ \E d \in dms : /\ d.owner = task[i].member
                               /\ d.target = task[i].target_message
                               /\ d.settled )
          => /\ task'[i].pc = "ab_err"
             /\ task'[i].exc = "AlreadyBookmarkedError"
             /\ dms' = dms
             /\ cache' = cache]_vars

\* C3: no member's persisted list holds the same message id twice.
C3_NoDuplicateIds == \A m \in Members : NoDuplicates(StoredList(m))

\* C3 witness: a delete has run to its end, a bookmark DM sent by an
\* invocation has been recorded as delivered, and a list is not empty.
C3_Witness ==
    /\ \E j \in Dels : dtask[j].pc = "done"
    /\ \E d \in dms : d.id > IdBase /\ d.settled
    /\ \E m \in Members : StoredList(m) # <<>>

\* C4: an attempt whose DM is refused (Forbidden) posts the "enable your DMs"
\* error embed to the channel, and none of its steps writes the cache or
\* creates a DM.
C4_ForbiddenPostsErrorOnly ==
    [][\A i \in Invs :
          /\ (StepsFrom(i, "ab_send") /\ task'[i].exc = "Forbidden")
                => /\ task'[i].pc = "ab_err"
                   /\ cache' = cache
                   /\ dms' = dms
          /\ (StepsFrom(i, "ab_err") /\ task[i].exc = "Forbidden")
                => /\ posted'[i] = "enable_dms"
                   /\ task'[i].pc \in {"prompt", "remove"}
                   /\ cache' = cache
                   /\ dms' = dms]_vars

\* C4 witness: the error embed for closed DMs has been posted for a member
\* whose record holds a list, which is still there.
C4_Witness ==
    \E i \in Invs :
        /\ posted[i] = "enable_dms"
        /\ task[i].pc = "prompt"
        /\ cache[task[i].author] # Absent
        /\ StoredList(task[i].author) # <<>>

\* C5: while an invocation waits, a reaction_add event starts a bookmark
\* attempt if and only if it is on the invocation's prompt, its user is not
\* in bookmarked_users, its emoji is BOOKMARK_EMOJI and its user is not the
\* bot; nothing but such an event or the timeout moves a waiting invocation,
\* and the step of an event changes nothing but the frames of the
\* invocations that accept it.
C5_Accepts(i) ==
    /\ task'[i].pc = "ab_get"
    /\ task'[i].reaction.message = PromptId(i)
    /\ task'[i].reaction.emoji = BOOKMARK_EMOJI
    /\ ~Contains(task[i].bookmarked_users, task'[i].member)
    /\ task'[i].member # BotUser
    /\ task'[i].bookmarked_users = task[i].bookmarked_users
    /\ UNCHANGED <<cache, dms, prompt, promptDeletes, posted, dtask>>

C5_Qualifying(i, user) ==
    /\ task[i].pc = "waiting"
    /\ user \in Members
    /\ ~Contains(task[i].bookmarked_users, user)

C5_EventCheck ==
    /\ [][\A i \in Invs :
             StepsFrom(i, "waiting") => (C5_Accepts(i) \/ task'[i].pc = "delete")]_vars
    /\ [](\A i \in Invs, user \in Users :
             C5_Qualifying(i, user) =>
                 ENABLED ( /\ ReactionAdd(PromptId(i), user, BOOKMARK_EMOJI)
                           /\ task'[i].pc = "ab_get"
                           /\ task'[i].member = user )
             /\ ~ENABLED ( /\ ReactionAdd(PromptId(i), user, BOOKMARK_EMOJI)
                            /\ task'[i].pc # "ab_get" ))

\* C5 witness: a waiting invocation has accepted the reaction of a member
\* other than its author while the other invocation keeps waiting.
C5_Witness ==
    \E i, h \in Invs :
        /\ task[i].pc = "ab_get"
        /\ task[i].reaction.message = PromptId(i)
        /\ task[i].member # task[i].author
        /\ task[h].pc = "waiting"
        /\ Contains(task[h].bookmarked_users, task[i].member)

\* The error embeds of action_bookmark.
ErrorEmbeds == {"enable_dms", "already_bookmarked"}

\* C6: an invocation that posted its prompt and whose coroutine has ended has
\* ended in Closed, with the prompt deleted exactly once; no prompt is
\* deleted twice.
C6_CollectingEndsClosed ==
    \A i \in Invs :
        /\ promptDeletes[i] <= 1
        /\ (prompt[i] # "none" /\ task[i].pc \in {"raised", "returned", "closed"})
              => /\ task[i].pc = "closed"
                 /\ prompt[i] = "deleted"
                 /\ promptDeletes[i] = 1

\* C7: a failed attempt never aborts the invocation: after the error embed
\* the initiator's invocation posts its prompt and starts waiting, and a
\* reactor's invocation goes back to waiting.
C7_FailureNeverAborts ==
    [][\A i \in Invs :
          /\ StepsFrom(i, "ab_err") => task'[i].pc \in {"prompt", "remove"}
          /\ StepsFrom(i, "prompt") => (prompt'[i] = "live" /\ task'[i].pc = "add_reaction")
          /\ StepsFrom(i, "add_reaction") => task'[i].pc = "waiting"
          /\ (StepsFrom(i, "remove") /\ posted[i] \in ErrorEmbeds)
                => task'[i].pc = "waiting"]_vars

\* C8: when the attempt for an accepted reactor is over, the invocation
\* goes back to waiting with the reactor added to bookmarked_users, whatever
\* the outcome of the attempt.
C8_ReactorIsClaimed ==
    [][\A i \in Invs :
          StepsFrom(i, "remove")
              => /\ task'[i].pc = "waiting"
                 /\ task'[i].bookmarked_users =
                        Append(task[i].bookmarked_users, task[i].member)]_vars

\* Delete invocation j takes a step from the suspension point `at`.
DeleteStepsFrom(j, at) == dtask[j].pc = at /\ dtask'[j] # dtask[j]

LiveIds == {d.id : d \in dms}

\* C9: a delete of message M by member m in m's DM channel deletes M, ends
\* without an error and leaves m's persisted list equal to the previous list
\* without M; when M is not on the list the cache is not touched; no other
\* member's record changes.
C9_DeleteRemovesId ==
    [][\A j \in Dels :
          /\ DeleteStepsFrom(j, "d_delete")
                => /\ dtask'[j].pc = "d_get"
                   /\ dtask[j].message_to_delete \notin LiveIds'
                   /\ cache' = cache
          /\ DeleteStepsFrom(j, "d_set")
                => /\ dtask'[j].pc = "done"
                   /\ dtask'[j].exc = "none"
                   /\ dtask[j].message_to_delete \notin LiveIds'
                   /\ json_loads(cache'[dtask[j].author]) =
                          Without(StoredList(dtask[j].author), dtask[j].message_to_delete)
                   /\ ~Contains(StoredList(dtask[j].author), dtask[j].message_to_delete)
                          => cache' = cache
                   /\ \A o \in Members \ {dtask[j].author} : cache'[o] = cache[o]]_vars

\* C9 witness: a delete has deleted a message that is on its author's list
\* with another id, and has run to its end; the author's list is now that
\* other id alone.
C9_Witness ==
    \E j \in Dels, m \in Members :
        /\ dtask[j].pc = "done"
        /\ StoredDM(m) \notin LiveIds
        /\ cache[m] = json_dumps(<<1>>)
        /\ \A o \in Members \ {m} : Len(StoredList(o)) = 2

\* C10: a delete whose message is not in the author's DM channel raises
\* WrongChannel at once: no message is deleted and the cache is not touched;
\* a delete that goes on has a message of the author's DM channel.
C10_WrongChannelRejected ==
    /\ [][\A j \in Dels :
             (dtask[j].pc = "idle" /\ dtask'[j] # dtask[j])
                 => /\ dtask'[j].exc = "WrongChannel"
                         => (dtask'[j].pc = "raised" /\ dms' = dms /\ cache' = cache)
                    /\ dtask'[j].pc = "d_delete"
                         => ChannelOf(dtask'[j].message_to_delete) = dtask'[j].author]_vars
    /\ [](\A j \in Dels, m \in Members, message \in Ids :
             (ENABLED DeleteInvoke(j, m, message) /\ ChannelOf(message) # m)
                 => ~ENABLED ( /\ DeleteInvoke(j, m, message)
                               /\ dtask'[j] # EndedDelete("raised", "WrongChannel") ))

\* C10 witness: a delete was refused with WrongChannel while every record
\* holds two ids and every stored DM is still there.
C10_Witness ==
    /\ \E j \in Dels : dtask[j].pc = "raised" /\ dtask[j].exc = "WrongChannel"
    /\ \A m \in Members : Len(StoredList(m)) = 2 /\ StoredDM(m) \in LiveIds

\* The DMs sent by invocation i.
SentBy(i) == {d \in dms : \E k \in 1..(Block - 1) : d.id = FreshId(i, k)}

\* C11: a bookmark invocation with no target raises NoTargetMessage, and one
\* whose author cannot read the target's channel posts the permission error
\* embed and returns; neither can do anything else, and such an invocation
\* has sent no DM, posted no prompt, served no reaction and written nothing
\* to the cache.
C11_ResolvingFails ==
    /\ [][\A i \in Invs :
             (StepsFrom(i, "idle") /\ task'[i].pc \in {"raised", "returned"})
                 => /\ cache' = cache /\ dms' = dms /\ prompt' = prompt
                    /\ task'[i].pc = "raised"
                         => (task'[i].exc = "NoTargetMessage" /\ posted' = posted)
                    /\ task'[i].pc = "returned"
                         => (task'[i].exc = "none" /\ posted'[i] = "no_permission")]_vars
    /\ [](\A i \in Invs, a \in Members, t \in Targets \cup {NoMessage} :
             (ENABLED Invoke(i, a, t) /\ (t = NoMessage \/ a \notin readers))
                 => ~ENABLED ( /\ Invoke(i, a, t)
                               /\ task'[i] # (IF t = NoMessage
                                               THEN EndedTask("raised", "NoTargetMessage")
                                               ELSE EndedTask("returned", "none")) ))
    /\ [](\A i \in Invs :
             (task[i].pc = "returned" \/ task[i].exc = "NoTargetMessage")
                 => /\ SentBy(i) = {}
                    /\ prompt[i] = "none"
                    /\ task[i].bookmarked_users = <<>>
                    /\ posted[i] = (IF task[i].pc = "returned" THEN "no_permission" ELSE "none")
                    /\ ~ENABLED (<<\E h \in Invs : AbGet(h) \/ UpSet(h) \/ Prompt(h)>>_<<task[i]>>))

\* C11 witness: one invocation was refused for want of a target and another
\* for want of read access.
C11_Witness ==
    \E i, h \in Invs :
        /\ task[i] = EndedTask("raised", "NoTargetMessage")
        /\ task[h] = EndedTask("returned", "none")
        /\ posted[h] = "no_permission"

C13_GateFollowsHomeGuild ==
    /\ [](~Dispatching => (~guild_available /\ ~gate_was_set))
    /\ [][guild_available' # guild_available
            => IF guild_available'
               THEN OnGuildAvailable(HomeGuild, TRUE, TRUE, TRUE)
               ELSE OnGuildUnavailable(HomeGuild)]_vars
    /\ [](\A guild \in Guilds, roles, members, channels \in BOOLEAN :
             Dispatching
                 => /\ ~ENABLED ( /\ OnGuildAvailable(guild, roles, members, channels)
                                  /\ guild_available' #
                                        (IF guild = HomeGuild /\ roles /\ members /\ channels
                                         THEN TRUE ELSE guild_available) )
                    /\ ~ENABLED ( /\ OnGuildUnavailable(guild)
                                  /\ guild_available' #
                                        (IF guild = HomeGuild THEN FALSE ELSE guild_available) ))

\* C13 witness: the gate was set and is clear again, with a caller suspended
\* on it.
C13_Witness ==
    /\ gate_was_set
    /\ ~guild_available
    /\ \E c \in Callers : caller[c] = "suspended"

\* C14: a caller suspended on the gate stays suspended while the gate is
\* clear and leaves the wait only by the step that sets the gate; that step
\* wakes every caller suspended at that moment, and every woken caller
\* resumes in the end, whatever set and clear calls follow.
C14_AllWaitersResume ==
    /\ [](\A c \in Callers : caller[c] = "suspended" => ~guild_available)
    /\ [][\A c \in Callers :
             caller[c] = "suspended"
                 => \/ caller'[c] = "suspended" /\ ~guild_available'
                    \/ caller'[c] = "woken" /\ guild_available']_vars
    /\ [][(~guild_available /\ guild_available')
             => \A c \in Callers : caller[c] = "suspended" => caller'[c] = "woken"]_vars
    /\ [][\A c \in Callers :
             (caller[c] = "woken" /\ caller'[c] # "woken") => caller'[c] = Passed(c)]_vars
    /\ \A c \in Callers :
          (caller[c] = "woken") ~> (caller[c] \notin {"suspended", "woken"})

\* C14 witness: every caller was woken by one set, none has resumed yet, and
\* the gate has been cleared again.
C14_Witness ==
    /\ \A c \in Callers : caller[c] = "woken"
    /\ ~guild_available

\* C15: no notice is sent before the gate has been set, and never more than
\* one; once past the gate send_log sends with the cached channel when there
\* is one and fetches it otherwise; a failed fetch makes send_log return
\* without a notice and without an exception; and once the gate has been set
\* send_log comes to its end, with the notice sent unless the fetch failed.
C15_NoticeAfterGate ==
    /\ [](notices <= 1)
    /\ []((notices = 1 \/ caller[SendLog] \in {"fetch", "send", "returned"}) => gate_was_set)
    /\ [](caller[SendLog] # "raised")
    /\ [][notices' # notices
            => /\ notices' = notices + 1
               /\ caller[SendLog] = "send"
               /\ caller'[SendLog] = "returned"]_vars
    /\ [][(caller[SendLog] \in {"idle", "woken"}
             /\ caller'[SendLog] \notin {"idle", "woken", "suspended"})
            => caller'[SendLog] = (IF devlog_cached THEN "send" ELSE "fetch")]_vars
    /\ [][(caller[SendLog] = "fetch" /\ caller'[SendLog] # "fetch")
            => \/ caller'[SendLog] = "send"
               \/ caller'[SendLog] = "returned" /\ notices' = 0]_vars
    /\ [](caller[SendLog] = "fetch" => ENABLED (FetchChannel /\ caller'[SendLog] = "returned"))
    /\ []((caller[SendLog] = "returned" /\ devlog_cached) => notices = 1)
    /\ gate_was_set ~> (caller[SendLog] = "returned")

\* C15 witness: the notice was sent with a fetched channel, after the gate
\* had been set and cleared again.
C15_Witness ==
    /\ notices = 1
    /\ ~devlog_cached
    /\ ~guild_available

\* The closes close() has to attempt, in their order.
Attached ==
    <<"client", "http">> \o (IF redis_session = "session" THEN <<"redis">> ELSE <<>>)

\* C16: when close() has returned or raised, the event client, the HTTP
\* client and the attached cache client have each had their close attempted,
\* in that order.
C16_AllClosesAttempted ==
    closing.pc \in {"returned", "raised"} => closing.attempted = Attached

\* C17: on_command_error resets the cooldown and does not call the default
\* handler when the exception is a user-input error, NoTargetMessage and
\* WrongChannel of the bookmark commands included; for every other exception
\* it calls the default handler and does not reset the cooldown.
C17_CooldownResetOnUserInput ==
    /\ [](hook.exception # "none"
            => /\ hook.cooldown_reset # hook.default_handler
               /\ hook.cooldown_reset <=>
                     hook.exception \in {"NoTargetMessage", "WrongChannel"})
    /\ [](\A e \in HookExceptions :
             ENABLED (OnCommandError(e) /\ hook'.exception = e))

\* C17 witness: the hook was last called for the WrongChannel error of the
\* delete command and has reset the cooldown.
C17_Witness ==
    /\ hook.exception = "WrongChannel"
    /\ hook.cooldown_reset
    /\ ~hook.default_handler

\* The suspension points of bookmark() inside the loop of lines 190-199.
InLoop == {"waiting", "ab_get", "ab_send", "up_get", "up_set", "ab_err", "remove"}

\* C18: every wait of the loop starts with a full window of TIMEOUT seconds:
\* the first one, and the one after each reactor that was served; and the
\* loop is left only from a wait whose whole window has passed.
C18_FreshWindow ==
    [][\A i \in Invs :
          /\ StepsFrom(i, "add_reaction")
                => (task'[i].pc = "waiting" /\ remaining'[i] = TIMEOUT)
          /\ StepsFrom(i, "remove")
                => (task'[i].pc = "waiting" /\ remaining'[i] = TIMEOUT)
          /\ (prompt[i] = "live" /\ task[i].pc \in InLoop /\ task'[i].pc \notin InLoop)
                => (task[i].pc = "waiting" /\ remaining[i] = 0)]_vars

\* C19: every bookmark DM of a target message is in the DM channel of a
\* member who may read the target's channel.
C19_OnlyReadersGetDM ==
    \A d \in dms : d.target # NoMessage => d.owner \in readers

\* C20: when the loop of an invocation has been left, no qualifying reaction
\* that was added to its live prompt before is still without a bookmark
\* attempt.
C20_NoReactionLost ==
    \A i \in Invs :
        task[i].pc \in {"delete", "closed", "raised", "returned"} => unserved[i] = {}

====
